---------------------------- MODULE Spec2Model ----------------------------
(***************************************************************************)
(* Model of the WebAuthn modular signer                                    *)
(*   src/plugins/modularPermission/signers/toWebAuthnSigner.ts             *)
(*                                                                         *)
(* Strings are sequences of one-character strings, byte arrays are         *)
(* sequences of integers in 0..255.  A JavaScript object is a record; a    *)
(* property whose value is undefined is a field the record does not have,  *)
(* and None is the object without any property.  A helper that can throw   *)
(* returns [ok |-> TRUE, v |-> value] or [ok |-> FALSE, error |-> name].   *)
(***************************************************************************)
EXTENDS Integers, Sequences, FiniteSets, TLC

None == << >>
IsSet(x) == DOMAIN x # {}
Has(obj, f) == f \in DOMAIN obj

Ok(x) == [ok |-> TRUE, v |-> x]
Throw(e) == [ok |-> FALSE, error |-> e]

(***************************************************************************)
(* Characters and bytes                                                    *)
(***************************************************************************)

\* The printable ASCII characters, Ascii[i] has character code i + 31
\* (code 96, the grave accent, is written by its number).
Ascii ==
  << " ", "!", "\"", "#", "$", "%", "&", "'", "(", ")", "*", "+", ",", "-", ".", "/",
     "0", "1", "2", "3", "4", "5", "6", "7", "8", "9", ":", ";", "<", "=", ">", "?",
     "@", "A", "B", "C", "D", "E", "F", "G", "H", "I", "J", "K", "L", "M", "N", "O",
     "P", "Q", "R", "S", "T", "U", "V", "W", "X", "Y", "Z", "[", "\\", "]", "^", "_",
     "\\96", "a", "b", "c", "d", "e", "f", "g", "h", "i", "j", "k", "l", "m", "n", "o",
     "p", "q", "r", "s", "t", "u", "v", "w", "x", "y", "z", "{", "|", "}", "~" >>

B64Alphabet ==
  << "A", "B", "C", "D", "E", "F", "G", "H", "I", "J", "K", "L", "M", "N", "O", "P",
     "Q", "R", "S", "T", "U", "V", "W", "X", "Y", "Z", "a", "b", "c", "d", "e", "f",
     "g", "h", "i", "j", "k", "l", "m", "n", "o", "p", "q", "r", "s", "t", "u", "v",
     "w", "x", "y", "z", "0", "1", "2", "3", "4", "5", "6", "7", "8", "9", "+", "/" >>

HexDigits ==
  << "0", "1", "2", "3", "4", "5", "6", "7", "8", "9", "a", "b", "c", "d", "e", "f" >>

Range(s) == {s[i] : i \in DOMAIN s}

IndexIn(tbl, ch) == CHOOSE i \in DOMAIN tbl : tbl[i] = ch

\* String.fromCharCode for one byte (a binary string, as atob returns).
Chr(b) == IF b \in 32..126 THEN Ascii[b - 31] ELSE "\\" \o ToString(b)

\* charCodeAt of a printable character.
Code(ch) == IndexIn(Ascii, ch) + 31

StartsWith(s, p) == Len(s) >= Len(p) /\ SubSeq(s, 1, Len(p)) = p

\* s.slice(n)
Slice(s, n) == SubSeq(s, n + 1, Len(s))

RECURSIVE Join(_, _)
\* Array.prototype.join
Join(parts, sep) ==
  IF parts = <<>> THEN <<>>
  ELSE IF Len(parts) = 1 THEN parts[1]
  ELSE parts[1] \o sep \o Join(Tail(parts), sep)

RECURSIVE DecStr(_)
\* Number.prototype.toString() of a non-negative integer
DecStr(n) ==
  IF n < 10 THEN << HexDigits[n + 1] >>
  ELSE DecStr(n \div 10) \o << HexDigits[(n % 10) + 1] >>

\* Uint8Array.prototype.toString(): the decimal elements joined by ","
Uint8ArrayToString(bytes) ==
  Join([i \in DOMAIN bytes |-> DecStr(bytes[i])], << "," >>)

HexOfByte(b) == << HexDigits[(b \div 16) + 1], HexDigits[(b % 16) + 1] >>

RECURSIVE HexOfBytes(_)
HexOfBytes(bytes) ==
  IF bytes = <<>> THEN <<>>
  ELSE HexOfByte(Head(bytes)) \o HexOfBytes(Tail(bytes))

IsHexDigits(s) == \A i \in DOMAIN s : s[i] \in Range(HexDigits)

RECURSIVE BytesOfHex(_)
\* the bytes written by an even number of hex digits
BytesOfHex(h) ==
  IF Len(h) < 2 THEN <<>>
  ELSE << (IndexIn(HexDigits, h[1]) - 1) * 16 + (IndexIn(HexDigits, h[2]) - 1) >>
       \o BytesOfHex(Slice(h, 2))

(***************************************************************************)
(* Base64                                                                  *)
(***************************************************************************)

RECURSIVE SextetsToBytes(_)
\* 6-bit groups to bytes; the bits left over at the end are discarded
SextetsToBytes(v) ==
  IF Len(v) < 2 THEN <<>>
  ELSE IF Len(v) = 2 THEN << v[1] * 4 + (v[2] \div 16) >>
  ELSE IF Len(v) = 3 THEN << v[1] * 4 + (v[2] \div 16),
                             (v[2] % 16) * 16 + (v[3] \div 4) >>
  ELSE << v[1] * 4 + (v[2] \div 16),
          (v[2] % 16) * 16 + (v[3] \div 4),
          (v[3] % 4) * 64 + v[4] >> \o SextetsToBytes(Slice(v, 4))

RECURSIVE BytesToSextets(_)
BytesToSextets(b) ==
  IF b = <<>> THEN <<>>
  ELSE IF Len(b) = 1 THEN << b[1] \div 4, (b[1] % 4) * 16 >>
  ELSE IF Len(b) = 2 THEN << b[1] \div 4, (b[1] % 4) * 16 + (b[2] \div 16),
                             (b[2] % 16) * 4 >>
  ELSE << b[1] \div 4, (b[1] % 4) * 16 + (b[2] \div 16),
          (b[2] % 16) * 4 + (b[3] \div 64), b[3] % 64 >>
       \o BytesToSextets(Slice(b, 3))

\* trailing "=" padding removed when the length is a multiple of four
StripPadding(s) ==
  IF Len(s) % 4 = 0 /\ Len(s) >= 1 /\ s[Len(s)] = "="
  THEN IF Len(s) >= 2 /\ s[Len(s) - 1] = "="
       THEN SubSeq(s, 1, Len(s) - 2)
       ELSE SubSeq(s, 1, Len(s) - 1)
  ELSE s

\* standard base64 to bytes (forgiving-base64 decode)
Base64Decode(s) ==
  LET t == StripPadding(s)
  IN  IF Len(t) % 4 = 1 \/ \E i \in DOMAIN t : t[i] \notin Range(B64Alphabet)
      THEN Throw("InvalidCharacterError")
      ELSE Ok(SextetsToBytes([i \in DOMAIN t |-> IndexIn(B64Alphabet, t[i]) - 1]))

\* base64url without padding, the encoding of the fields of an assertion
Base64UrlEncode(bytes) ==
  LET v == BytesToSextets(bytes)
  IN  [i \in DOMAIN v |->
         IF v[i] = 62 THEN "-" ELSE IF v[i] = 63 THEN "_" ELSE B64Alphabet[v[i] + 1]]

\* padded standard base64 of bytes
Base64Encode(bytes) ==
  LET v == BytesToSextets(bytes)
      body == [i \in DOMAIN v |-> B64Alphabet[v[i] + 1]]
  IN  body \o [i \in 1..((4 - (Len(v) % 4)) % 4) |-> "="]

\* window.atob: a binary string, or an exception
Atob(s) ==
  LET b == Base64Decode(s)
  IN  IF b.ok THEN Ok([i \in DOMAIN b.v |-> Chr(b.v[i])]) ELSE b

(***************************************************************************)
(* Helpers of webAuthnUtils.js and the chain table, as the specification   *)
(* describes them (sections 4.1 to 4.3 and 4.6)                            *)
(***************************************************************************)

\* the text "type":" and the text "challenge":"
TypeMarker == << "\"", "t", "y", "p", "e", "\"", ":", "\"" >>
ChallengeMarker ==
  << "\"", "c", "h", "a", "l", "l", "e", "n", "g", "e", "\"", ":", "\"" >>

\* String.prototype.indexOf: the 0-based offset of the first occurrence, or -1
IndexOf(s, p) ==
  LET hits == {i \in 1..(Len(s) - Len(p) + 1) : SubSeq(s, i, i + Len(p) - 1) = p}
  IN  IF hits = {} THEN -1
      ELSE (CHOOSE i \in hits : \A j \in hits : i <= j) - 1

\* the offsets just past the two markers, by literal substring search
findQuoteIndices(input) ==
  LET t == IndexOf(input, TypeMarker)
      c == IndexOf(input, ChallengeMarker)
  IN  IF t < 0 \/ c < 0 THEN Throw("FieldNotFound")
      ELSE Ok([beforeType |-> t + Len(TypeMarker),
               beforeChallenge |-> c + Len(ChallengeMarker)])

b64ToBytes(base64) == Base64Decode(base64)

uint8ArrayToHexString(bytes) == << "0", "x" >> \o HexOfBytes(bytes)

\* width in bytes of one signature component (32 for P-256, scaled down)
ComponentWidth == 1

RECURSIVE BigEndian(_)
BigEndian(bytes) ==
  IF bytes = <<>> THEN 0
  ELSE BigEndian(SubSeq(bytes, 1, Len(bytes) - 1)) * 256 + bytes[Len(bytes)]

\* (r, s) of a raw signature of two fixed-width components
parseAndNormalizeSig(signatureHex) ==
  LET bytes == BytesOfHex(Slice(signatureHex, 2))
  IN  IF Len(bytes) # 2 * ComponentWidth THEN Throw("MalformedSignature")
      ELSE Ok([r |-> BigEndian(SubSeq(bytes, 1, ComponentWidth)),
               s |-> BigEndian(SubSeq(bytes, ComponentWidth + 1, 2 * ComponentWidth))])

\* chain ids configured as having the secp256r1 precompile
RIP7212Chains == {10}

isRIP7212SupportedNetwork(chainId_) == chainId_ \in RIP7212Chains

(***************************************************************************)
(* viem                                                                    *)
(***************************************************************************)

\* the ABI encoding of the values under the given types, in the given order
encodeAbiParameters(types, values) == [types |-> types, values |-> values]

EncodedSignatureTypes ==
  << "bytes", "string", "uint256", "uint256", "uint256", "uint256", "bool" >>

\* validateTypedData throws on typed data it finds malformed
validateTypedData(typedData) ==
  IF typedData.valid THEN Ok(TRUE) ELSE Throw("InvalidTypedData")

\* hashTypedData: the EIP-712 hash, a 0x-prefixed hex string
hashTypedData(typedData) == typedData.hash

(***************************************************************************)
(* Pure parts of toWebAuthnSigner.ts                                       *)
(***************************************************************************)

WEBAUTHN_SIGNER_CONTRACT == "0x8AA55d4BfAE101609078681A69B5bc3181516612"

\* 2^256 - 1 in viem, scaled to sixteen bits
maxUint256 == 65535

\* the placeholders r = 1111...1n and s = 2222...2n of the dummy signature,
\* scaled with maxUint256 (both are below it, and differ)
DummyR == 11111
DummyS == 22222

\* "0x" followed by 74 times "f"
DummyAuthenticatorData == << "0", "x" >> \o [i \in 1..74 |-> "f"]

DummyClientDataJSON ==
  << "{", "\"", "t", "y", "p", "e", "\"", ":", "\"", "w", "e", "b", "a", "u", "t", "h",
     "n", ".", "g", "e", "t", "\"", ",", "\"", "c", "h", "a", "l", "l", "e", "n", "g",
     "e", "\"", ":", "\"", "a", "a", "a", "a", "a", "a", "a", "a", "a", "a", "a", "a",
     "a", "a", "a", "a", "a", "a", "a", "a", "a", "a", "a", "a", "a", "a", "a", "a",
     "a", "a", "a", "a", "a", "a", "a", "a", "a", "a", "a", "a", "a", "a", "a", "\"",
     ",", "\"", "o", "r", "i", "g", "i", "n", "\"", ":", "\"", "h", "t", "t", "p", "s",
     ":", "/", "/", "e", "x", "a", "m", "p", "l", "e", ".", "c", "o", "m", "\"", "}" >>

\* lines 70-87: the string submitted for a message, or the exception.  The
\* in operator of lines 74 and 77 throws a TypeError when its right operand
\* is not an object.
FormatMessage(message) ==
  LET content ==
        IF message.kind = "string" THEN Ok(message.val)
        ELSE IF message.kind = "primitive" THEN Throw("TypeError")
        ELSE IF message.kind = "rawHex" THEN Ok(message.val)
        ELSE IF message.kind = "rawBytes" THEN Ok(Uint8ArrayToString(message.bytes))
        ELSE Throw("UnsupportedMessageFormat")
  IN  IF ~content.ok THEN content
      ELSE IF StartsWith(content.v, << "0", "x" >>) THEN Ok(Slice(content.v, 2))
      ELSE content

\* the encoded signature with the two offsets in the other order
EncodeSignature_SwappedLocations(cred, verifyResult, chainId_) ==
  LET authBytes == b64ToBytes(verifyResult.authenticatorData)
      clientData == Atob(cred.response.clientDataJSON)
      sigBytes == b64ToBytes(verifyResult.signature)
  IN  IF ~authBytes.ok THEN authBytes
      ELSE IF ~clientData.ok THEN clientData
      ELSE LET idx == findQuoteIndices(clientData.v)
           IN  IF ~idx.ok THEN idx
               ELSE IF ~sigBytes.ok THEN sigBytes
               ELSE LET sig == parseAndNormalizeSig(uint8ArrayToHexString(sigBytes.v))
                    IN  IF ~sig.ok THEN sig
                        ELSE Ok(encodeAbiParameters(
                                  EncodedSignatureTypes,
                                  << uint8ArrayToHexString(authBytes.v),
                                     clientData.v,
                                     idx.v.beforeType,
                                     idx.v.beforeChallenge,
                                     sig.v.r,
                                     sig.v.s,
                                     isRIP7212SupportedNetwork(chainId_) >>))

\* lines 125-163: the encoded signature built from the assertion and the
\* verified response, or the exception of the first step that throws
EncodeSignature(cred, verifyResult, chainId_) ==
  LET authBytes == b64ToBytes(verifyResult.authenticatorData)
      clientData == Atob(cred.response.clientDataJSON)
      sigBytes == b64ToBytes(verifyResult.signature)
  IN  IF ~authBytes.ok THEN authBytes
      ELSE IF ~clientData.ok THEN clientData
      ELSE LET idx == findQuoteIndices(clientData.v)
           IN  IF ~idx.ok THEN idx
               ELSE IF ~sigBytes.ok THEN sigBytes
               ELSE LET sig == parseAndNormalizeSig(uint8ArrayToHexString(sigBytes.v))
                    IN  IF ~sig.ok THEN sig
                        ELSE Ok(encodeAbiParameters(
                                  EncodedSignatureTypes,
                                  << uint8ArrayToHexString(authBytes.v),
                                     clientData.v,
                                     idx.v.beforeChallenge,
                                     idx.v.beforeType,
                                     sig.v.r,
                                     sig.v.s,
                                     isRIP7212SupportedNetwork(chainId_) >>))

\* the signer data with the two coordinates in the other order
SignerData_Swapped(pubKey_) ==
  IF ~IsSet(pubKey_) THEN Throw("PublicKeyUnavailable")
  ELSE Ok(encodeAbiParameters(<< "uint256", "uint256" >>,
                              << pubKey_.pubY, pubKey_.pubX >>))

\* lines 198-209
SignerData(pubKey_) ==
  IF ~IsSet(pubKey_) THEN Throw("PublicKeyUnavailable")
  ELSE Ok(encodeAbiParameters(<< "uint256", "uint256" >>,
                              << pubKey_.pubX, pubKey_.pubY >>))

\* a dummy signature with usePrecompiled fixed to false
DummySignature_NeverPrecompiled(chainId_) ==
  encodeAbiParameters(
    EncodedSignatureTypes,
    << DummyAuthenticatorData, DummyClientDataJSON, maxUint256, maxUint256,
       DummyR, DummyS, FALSE >>)

\* a dummy signature whose r and s are the maximum uint256
DummySignature_MaxRS(chainId_) ==
  encodeAbiParameters(
    EncodedSignatureTypes,
    << DummyAuthenticatorData, DummyClientDataJSON, maxUint256, maxUint256,
       maxUint256, maxUint256, isRIP7212SupportedNetwork(chainId_) >>)

\* lines 210-231
DummySignature(chainId_) ==
  encodeAbiParameters(
    EncodedSignatureTypes,
    << DummyAuthenticatorData,
       DummyClientDataJSON,
       maxUint256,
       maxUint256,
       DummyR,
       DummyS,
       isRIP7212SupportedNetwork(chainId_) >>)

(***************************************************************************)
(* Inputs and the outcomes of the external steps                           *)
(***************************************************************************)

\* number of distinct challenges the passkey server issues
NumChallenges == 2
\* longest raw byte array passed to signMessage
MaxRawLen == 2

Calls == {"c1", "c2"}

KeyGiven == [pubX |-> 1, pubY |-> 2]
KeyProvisioned == [pubX |-> 3, pubY |-> 4]

ChainIds == {10, 999999}

\* the parameters of toWebAuthnSigner: with and without pubKey, with and
\* without signerContractAddress
ParamSets ==
  { [passkeyName |-> "name", passkeyServerUrl |-> "https://passkeys",
     pubKey |-> KeyGiven],
    [passkeyName |-> "name", passkeyServerUrl |-> "https://passkeys",
     signerContractAddress |-> "0xCustomSigner"] }

\* outcomes of toWebAuthnPubKey: a key, undefined, or an exception
ProvisionOutcomes == {Ok(KeyProvisioned), Ok(None), Throw("ProvisioningFailed")}

RawByteArrays == {[i \in 1..n |-> 73 + i] : n \in 1..MaxRawLen}

\* values of the message parameter of signMessage: a string, an object with
\* a raw hex string, an object without a raw string or byte array ("other"),
\* a value that is neither a string nor an object, such as 42 or null
\* ("primitive"), and objects with a raw byte array
Messages ==
  { [kind |-> "string", val |-> << "0", "x", "4", "a" >>],
    [kind |-> "rawHex", val |-> << "0", "x", "4", "b" >>],
    [kind |-> "other"],
    [kind |-> "primitive"] }
  \cup {[kind |-> "rawBytes", bytes |-> b] : b \in RawByteArrays}

TypedDatas ==
  { [valid |-> TRUE, hash |-> << "0", "x", "c", "d" >>],
    [valid |-> FALSE, hash |-> << "0", "x", "e", "e" >>] }

Challenges == {<< HexDigits[k + 1] >> : k \in 1..NumChallenges}

\* the JSON body of a successful sign-initiate response
ChallengeBody(ch) ==
  [challenge |-> ch, allowCredentials |-> << [id |-> ch, type |-> "public-key"] >>]

\* the JSON body of an error response: no challenge, no allowCredentials
ErrorBody == [error |-> "Internal Server Error"]

\* how fetch and response.json() of sign-initiate can end: fetch rejects, or
\* a response arrives with HTTP status ok or not, whose body parses or not
InitiateOutcomes ==
  {[fetch |-> "rejected"]}
  \cup {[fetch |-> "response", httpOk |-> FALSE, json |-> Throw("SyntaxError")]}
  \cup {[fetch |-> "response", httpOk |-> FALSE, json |-> Ok(ErrorBody)]}
  \cup {[fetch |-> "response", httpOk |-> TRUE, json |-> Ok(ChallengeBody(ch))] :
          ch \in Challenges}

\* JSON.stringify of the client data an authenticator signs
ClientDataText(ch) ==
  << "{" >> \o TypeMarker \o << "g", "\"", "," >> \o ChallengeMarker \o ch
  \o << "\"", "}" >>

\* client data of a non-conforming authenticator: no challenge field
ClientDataNoChallenge == << "{" >> \o TypeMarker \o << "g", "\"", "}" >>

BytesOfText(t) == [i \in DOMAIN t |-> Code(t[i])]

AssertionOf(text) ==
  [type |-> "public-key",
   response |-> [clientDataJSON |-> Base64UrlEncode(BytesOfText(text)),
                 authenticatorData |-> Base64UrlEncode(<< 1, 2, 3 >>),
                 signature |-> Base64UrlEncode(<< 7, 9 >>)]]

\* the assertion a conforming authenticator returns for each challenge, and
\* the one of a non-conforming authenticator
ConformingAssertion == [ch \in Challenges |-> AssertionOf(ClientDataText(ch))]
NonConformingAssertion == AssertionOf(ClientDataNoChallenge)

\* how startAuthentication(options) can end: the user cancels or it times
\* out, or the authenticator returns an assertion over the given challenge,
\* or a non-conforming one
AuthenticationOutcomes(options) ==
  {Throw("AssertionAborted"), Ok(NonConformingAssertion)}
  \cup (IF Has(options, "challenge")
        THEN {Ok(ConformingAssertion[options.challenge])}
        ELSE {})

ServerAuthenticatorDatas == {Base64Encode(<< 1, 2, 3 >>), Base64Encode(<< 4, 5, 6 >>)}

\* a well-formed signature (r = 7, s = 9) and one that is too short
ServerSignatures == {Base64Encode(<< 7, 9 >>), Base64Encode(<< 7 >>)}

\* the JSON bodies of sign-verify responses that report success
VerifiedBodies ==
  {[success |-> TRUE, authenticatorData |-> a, signature |-> g] :
     a \in ServerAuthenticatorDatas, g \in ServerSignatures}

\* the JSON bodies of sign-verify responses that report no success, without
\* and with the other two fields
RejectedBodies ==
  { [success |-> FALSE],
    [success |-> FALSE, authenticatorData |-> Base64Encode(<< 1, 2, 3 >>),
     signature |-> Base64Encode(<< 7, 9 >>)] }

\* how fetch and response.json() of sign-verify can end
VerifyOutcomes ==
  {[fetch |-> "rejected"]}
  \cup {[fetch |-> "response", json |-> Throw("SyntaxError")]}
  \cup {[fetch |-> "response", json |-> Ok(body)] : body \in RejectedBodies}
  \cup {[fetch |-> "response", json |-> Ok(body)] : body \in VerifiedBodies}

Assertions == Range(ConformingAssertion) \cup {NonConformingAssertion}

\* EncodeSignature over the inputs of the model, evaluated once
SignatureEncodings ==
  [cred \in Assertions, verifyResult \in VerifiedBodies, id \in ChainIds |->
     EncodeSignature(cred, verifyResult, id)]

(***************************************************************************)
(* State                                                                   *)
(***************************************************************************)

VARIABLES
  params,                \* the arguments toWebAuthnSigner was called with
  spc,                   \* where the construction of the signer stands
  pubKey,                \* line 56: the key held by the signer, or None
  chainId,               \* line 67: the chain id read once, 0 before
  signerContractAddress, \* line 49: the address of the returned signer
  provisionCalls,        \* number of calls of toWebAuthnPubKey
  chainIdCalls,          \* number of calls of getChainId
  constructError,        \* the exception construction ended with, or ""
  calls                  \* per call of an operation of the signer: its record

vars ==
  << params, spc, pubKey, chainId, signerContractAddress, provisionCalls,
     chainIdCalls, constructError, calls >>

signerVars ==
  << params, spc, pubKey, chainId, signerContractAddress, provisionCalls,
     chainIdCalls, constructError >>

\* a call that has not been made
IdleCall ==
  [pc |-> "Idle",        \* Idle, ChallengeRequested, AssertionPending,
                         \* ServerVerifying, Encoded, Failed, Returned
   op |-> "",            \* the operation called
   input |-> None,       \* its argument
   initReq |-> None,     \* the sign-initiate request sent
   initRes |-> None,     \* signInitiateResult
   initOutcome |-> "",   \* how fetch of sign-initiate ended: "rejected",
                         \* "http-ok" or "http-error"
   options |-> None,     \* assertionOptions given to the authenticator
   cred |-> None,        \* the assertion the authenticator returned
   verifyReq |-> None,   \* the sign-verify request sent
   verifyRes |-> None,   \* verifyResult
   result |-> None,      \* the value returned
   error |-> "",         \* the exception thrown
   nInit |-> 0,          \* sign-initiate requests sent
   nAuth |-> 0,          \* invocations of the authenticator
   nVerify |-> 0]        \* sign-verify requests sent

Init ==
  /\ params \in ParamSets
  /\ spc = "NotCalled"
  /\ pubKey = None
  /\ chainId = 0
  /\ signerContractAddress = ""
  /\ provisionCalls = 0
  /\ chainIdCalls = 0
  /\ constructError = ""
  /\ calls = [c \in Calls |-> IdleCall]

(***************************************************************************)
(* Construction: toWebAuthnSigner, lines 43-67                             *)
(***************************************************************************)

\* lines 47-62: the call, up to its first await.  With a pubKey argument
\* the provisioning collaborator is skipped and getChainId is called.
ToWebAuthnSigner ==
  /\ spc = "NotCalled"
  /\ signerContractAddress' =
       IF Has(params, "signerContractAddress") THEN params.signerContractAddress
       ELSE WEBAUTHN_SIGNER_CONTRACT
  /\ IF Has(params, "pubKey")
     THEN /\ pubKey' = params.pubKey
          /\ spc' = "FetchingChainId"
          /\ chainIdCalls' = chainIdCalls + 1
          /\ UNCHANGED provisionCalls
     ELSE /\ spc' = "Provisioning"
          /\ provisionCalls' = provisionCalls + 1
          /\ UNCHANGED << pubKey, chainIdCalls >>
  /\ UNCHANGED << params, chainId, constructError, calls >>

\* ProvisionSettles without the check of lines 63-65
ProvisionSettles_NoKeyCheck(o) ==
  /\ spc = "Provisioning"
  /\ IF ~o.ok
     THEN /\ spc' = "ConstructFailed"
          /\ constructError' = o.error
          /\ UNCHANGED << pubKey, chainIdCalls >>
     ELSE /\ spc' = "FetchingChainId"
          /\ pubKey' = o.v
          /\ chainIdCalls' = chainIdCalls + 1
          /\ UNCHANGED constructError
  /\ UNCHANGED << params, chainId, signerContractAddress, provisionCalls, calls >>

\* lines 56-67: toWebAuthnPubKey settles; without a key construction throws
\* before getChainId is called
ProvisionSettles(o) ==
  /\ spc = "Provisioning"
  /\ IF ~o.ok
     THEN /\ spc' = "ConstructFailed"
          /\ constructError' = o.error
          /\ UNCHANGED << pubKey, chainIdCalls >>
     ELSE IF ~IsSet(o.v)
     THEN /\ spc' = "ConstructFailed"
          /\ constructError' = "PublicKeyUnavailable"
          /\ pubKey' = o.v
          /\ UNCHANGED chainIdCalls
     ELSE /\ spc' = "FetchingChainId"
          /\ pubKey' = o.v
          /\ chainIdCalls' = chainIdCalls + 1
          /\ UNCHANGED constructError
  /\ UNCHANGED << params, chainId, signerContractAddress, provisionCalls, calls >>

\* line 67 and lines 165-232: getChainId resolves and the signer is returned
GetChainIdResolves(id) ==
  /\ spc = "FetchingChainId"
  /\ chainId' = id
  /\ spc' = "Ready"
  /\ UNCHANGED << params, pubKey, signerContractAddress, provisionCalls,
                  chainIdCalls, constructError, calls >>

\* line 67: getChainId rejects
GetChainIdRejects ==
  /\ spc = "FetchingChainId"
  /\ spc' = "ConstructFailed"
  /\ constructError' = "GetChainIdFailed"
  /\ UNCHANGED << params, pubKey, chainId, signerContractAddress, provisionCalls,
                  chainIdCalls, calls >>

(***************************************************************************)
(* Operations of the signer                                                *)
(***************************************************************************)

CanCall(c) == spc = "Ready" /\ calls[c].pc = "Idle"

\* the call c ends with exception e
Fails(c, e) == [calls[c] EXCEPT !.pc = "Failed", !.error = e]

\* lines 69-98: signMessageUsingWebAuthn up to its first await: the message
\* is formatted and the sign-initiate request is sent
SignMessageUsingWebAuthn(c, op, input, message) ==
  LET formattedMessage == FormatMessage(message)
      started == [calls[c] EXCEPT !.op = op, !.input = input]
  IN  /\ calls' =
           [calls EXCEPT ![c] =
              IF ~formattedMessage.ok
              THEN [started EXCEPT !.pc = "Failed", !.error = formattedMessage.error]
              ELSE [started EXCEPT
                      !.pc = "ChallengeRequested",
                      !.initReq = [url |-> params.passkeyServerUrl \o "/sign-initiate",
                                   method |-> "POST",
                                   credentials |-> "include",
                                   body |-> [data |-> formattedMessage.v]],
                      !.nInit = @ + 1]]
      /\ UNCHANGED signerVars

\* lines 168-170
SignMessage(c, message) ==
  /\ CanCall(c)
  /\ SignMessageUsingWebAuthn(c, "signMessage", message, message)

\* signTypedData without the call of validateTypedData of line 188
SignTypedData_NoValidation(c, typedData) ==
  /\ CanCall(c)
  /\ SignMessageUsingWebAuthn(c, "signTypedData", typedData,
                              [kind |-> "string", val |-> hashTypedData(typedData)])

\* lines 174-192: validation, then the hash is signed as a string message
SignTypedData(c, typedData) ==
  /\ CanCall(c)
  /\ LET valid == validateTypedData(typedData)
     IN  IF ~valid.ok
         THEN /\ calls' = [calls EXCEPT ![c] =
                             [@ EXCEPT !.op = "signTypedData", !.input = typedData,
                                       !.pc = "Failed", !.error = valid.error]]
              /\ UNCHANGED signerVars
         ELSE SignMessageUsingWebAuthn(c, "signTypedData", typedData,
                                       [kind |-> "string", val |-> hashTypedData(typedData)])

\* signTransaction that signs the transaction as it would a message
SignTransaction_SignsAsMessage(c) ==
  /\ CanCall(c)
  /\ SignMessageUsingWebAuthn(c, "signTransaction", None,
                              [kind |-> "string", val |-> << "0", "x", "4", "a" >>])

\* lines 171-173
SignTransaction(c) ==
  /\ CanCall(c)
  /\ calls' = [calls EXCEPT ![c] =
                 [@ EXCEPT !.op = "signTransaction", !.pc = "Failed",
                           !.error = "TransactionSigningUnsupported"]]
  /\ UNCHANGED signerVars

\* getSignerData that hands the key out and no longer holds it
GetSignerData_ConsumesKey(c) ==
  /\ CanCall(c)
  /\ LET data == SignerData(pubKey)
     IN  calls' = [calls EXCEPT ![c] =
                     IF data.ok
                     THEN [@ EXCEPT !.op = "getSignerData", !.pc = "Returned",
                                    !.result = data.v]
                     ELSE [@ EXCEPT !.op = "getSignerData", !.pc = "Failed",
                                    !.error = data.error]]
  /\ pubKey' = None
  /\ UNCHANGED << params, spc, chainId, signerContractAddress, provisionCalls,
                  chainIdCalls, constructError >>

\* lines 198-209
GetSignerData(c) ==
  /\ CanCall(c)
  /\ LET data == SignerData(pubKey)
     IN  calls' = [calls EXCEPT ![c] =
                     IF data.ok
                     THEN [@ EXCEPT !.op = "getSignerData", !.pc = "Returned",
                                    !.result = data.v]
                     ELSE [@ EXCEPT !.op = "getSignerData", !.pc = "Failed",
                                    !.error = data.error]]
  /\ UNCHANGED signerVars

\* lines 210-231
GetDummySignature(c) ==
  /\ CanCall(c)
  /\ calls' = [calls EXCEPT ![c] =
                 [@ EXCEPT !.op = "getDummySignature", !.pc = "Returned",
                           !.result = DummySignature(chainId)]]
  /\ UNCHANGED signerVars

\* assertionOptions that do not take the challenge of the response
AssertionOptions_FixedChallenge(signInitiateResult) ==
  [f \in ({"challenge", "allowCredentials"} \cap DOMAIN signInitiateResult)
         \cup {"userVerification"} |->
     IF f = "userVerification" THEN "required"
     ELSE IF f = "challenge" THEN << "1" >>
     ELSE signInitiateResult[f]]

\* lines 101-106
AssertionOptions(signInitiateResult) ==
  [f \in ({"challenge", "allowCredentials"} \cap DOMAIN signInitiateResult)
         \cup {"userVerification"} |->
     IF f = "userVerification" THEN "required" ELSE signInitiateResult[f]]

\* lines 90-109: fetch of sign-initiate and response.json() settle; an
\* exception of either ends the call, otherwise the authenticator is invoked
\* with options taken from the parsed body.  The HTTP status is not read.
InitiateSettles(c, o) ==
  /\ calls[c].pc = "ChallengeRequested"
  /\ calls' =
       [calls EXCEPT ![c] =
          IF o.fetch = "rejected"
          THEN [Fails(c, "ChallengeInitiationFailed") EXCEPT !.initOutcome = "rejected"]
          ELSE LET status == IF o.httpOk THEN "http-ok" ELSE "http-error"
               IN  IF ~o.json.ok
                   THEN [Fails(c, "ChallengeInitiationFailed") EXCEPT
                           !.initOutcome = status]
                   ELSE [@ EXCEPT !.pc = "AssertionPending",
                                  !.initOutcome = status,
                                  !.initRes = o.json.v,
                                  !.options = AssertionOptions(o.json.v),
                                  !.nAuth = @ + 1]]
  /\ UNCHANGED signerVars

\* AuthenticationSettles that invokes the authenticator once more when the
\* first invocation is cancelled or times out
AuthenticationSettles_RetryOnAbort(c, o) ==
  /\ calls[c].pc = "AssertionPending"
  /\ calls' =
       [calls EXCEPT ![c] =
          IF ~o.ok
          THEN IF calls[c].nAuth < 2 THEN [@ EXCEPT !.nAuth = @ + 1]
               ELSE Fails(c, o.error)
          ELSE [@ EXCEPT !.pc = "ServerVerifying",
                         !.cred = o.v,
                         !.verifyReq = [url |-> params.passkeyServerUrl \o "/sign-verify",
                                        method |-> "POST",
                                        credentials |-> "include",
                                        body |-> [cred |-> o.v]],
                         !.nVerify = @ + 1]]
  /\ UNCHANGED signerVars

\* lines 109-117: startAuthentication settles; its exception ends the call,
\* otherwise the assertion is sent to sign-verify
AuthenticationSettles(c, o) ==
  /\ calls[c].pc = "AssertionPending"
  /\ calls' =
       [calls EXCEPT ![c] =
          IF ~o.ok THEN Fails(c, o.error)
          ELSE [@ EXCEPT !.pc = "ServerVerifying",
                         !.cred = o.v,
                         !.verifyReq = [url |-> params.passkeyServerUrl \o "/sign-verify",
                                        method |-> "POST",
                                        credentials |-> "include",
                                        body |-> [cred |-> o.v]],
                         !.nVerify = @ + 1]]
  /\ UNCHANGED signerVars

\* VerifySettles that sends the assertion to sign-verify again when the
\* response says no success
VerifySettles_RetryOnReject(c, o) ==
  /\ calls[c].pc = "ServerVerifying"
  /\ calls' =
       [calls EXCEPT ![c] =
          IF o.fetch = "rejected" \/ ~o.json.ok THEN Fails(c, "VerifyRequestFailed")
          ELSE LET verifyResult == o.json.v
               IN  IF ~(Has(verifyResult, "success") /\ verifyResult.success)
                   THEN IF calls[c].nVerify < 2
                        THEN [@ EXCEPT !.verifyRes = verifyResult, !.nVerify = @ + 1]
                        ELSE [Fails(c, "ServerSignatureRejected") EXCEPT
                                !.verifyRes = verifyResult]
                   ELSE LET enc == EncodeSignature(calls[c].cred, verifyResult, chainId)
                        IN  IF ~enc.ok
                            THEN [Fails(c, enc.error) EXCEPT !.verifyRes = verifyResult]
                            ELSE [@ EXCEPT !.pc = "Encoded",
                                           !.verifyRes = verifyResult,
                                           !.result = enc.v]]
  /\ UNCHANGED signerVars

\* VerifySettles whose challenge offset is shifted by the length of the
\* data submitted to sign-initiate
VerifySettles_OffsetByData(c, o) ==
  /\ calls[c].pc = "ServerVerifying"
  /\ calls' =
       [calls EXCEPT ![c] =
          IF o.fetch = "rejected" \/ ~o.json.ok THEN Fails(c, "VerifyRequestFailed")
          ELSE LET verifyResult == o.json.v
               IN  IF ~(Has(verifyResult, "success") /\ verifyResult.success)
                   THEN [Fails(c, "ServerSignatureRejected") EXCEPT
                           !.verifyRes = verifyResult]
                   ELSE LET enc == EncodeSignature(calls[c].cred, verifyResult, chainId)
                        IN  IF ~enc.ok
                            THEN [Fails(c, enc.error) EXCEPT !.verifyRes = verifyResult]
                            ELSE [@ EXCEPT
                                    !.pc = "Encoded",
                                    !.verifyRes = verifyResult,
                                    !.result =
                                      [enc.v EXCEPT
                                         !.values[3] = @ + Len(calls[c].initReq.body.data)]]]
  /\ UNCHANGED signerVars

\* VerifySettles that returns what it has built when a later step of the
\* encoding throws
VerifySettles_PartialResult(c, o) ==
  /\ calls[c].pc = "ServerVerifying"
  /\ calls' =
       [calls EXCEPT ![c] =
          IF o.fetch = "rejected" \/ ~o.json.ok THEN Fails(c, "VerifyRequestFailed")
          ELSE LET verifyResult == o.json.v
               IN  IF ~(Has(verifyResult, "success") /\ verifyResult.success)
                   THEN [Fails(c, "ServerSignatureRejected") EXCEPT
                           !.verifyRes = verifyResult]
                   ELSE LET enc == EncodeSignature(calls[c].cred, verifyResult, chainId)
                        IN  IF ~enc.ok
                            THEN [@ EXCEPT !.pc = "Encoded",
                                           !.verifyRes = verifyResult,
                                           !.result =
                                             encodeAbiParameters(
                                               << "bytes" >>,
                                               << verifyResult.authenticatorData >>)]
                            ELSE [@ EXCEPT !.pc = "Encoded",
                                           !.verifyRes = verifyResult,
                                           !.result = enc.v]]
  /\ UNCHANGED signerVars

\* VerifySettles that keeps the assertion in one place shared by all calls:
\* the encoding reads the assertion another call has got, if there is one
VerifySettles_SharedAssertion(c, o) ==
  /\ calls[c].pc = "ServerVerifying"
  /\ calls' =
       [calls EXCEPT ![c] =
          IF o.fetch = "rejected" \/ ~o.json.ok THEN Fails(c, "VerifyRequestFailed")
          ELSE LET verifyResult == o.json.v
                   others == {d \in Calls \ {c} : IsSet(calls[d].cred)}
                   cred == IF others = {} THEN calls[c].cred
                           ELSE calls[CHOOSE d \in others : TRUE].cred
               IN  IF ~(Has(verifyResult, "success") /\ verifyResult.success)
                   THEN [Fails(c, "ServerSignatureRejected") EXCEPT
                           !.verifyRes = verifyResult]
                   ELSE LET enc == EncodeSignature(cred, verifyResult, chainId)
                        IN  IF ~enc.ok
                            THEN [Fails(c, enc.error) EXCEPT !.verifyRes = verifyResult]
                            ELSE [@ EXCEPT !.pc = "Encoded",
                                           !.verifyRes = verifyResult,
                                           !.result = enc.v]]
  /\ UNCHANGED signerVars

\* VerifySettles that, when the server does not report success, keeps
\* waiting for another response, which never comes
VerifySettles_WaitsOnReject(c, o) ==
  /\ calls[c].pc = "ServerVerifying"
  /\ ~IsSet(calls[c].verifyRes)
  /\ calls' =
       [calls EXCEPT ![c] =
          IF o.fetch = "rejected" \/ ~o.json.ok THEN Fails(c, "VerifyRequestFailed")
          ELSE LET verifyResult == o.json.v
               IN  IF ~(Has(verifyResult, "success") /\ verifyResult.success)
                   THEN [@ EXCEPT !.verifyRes = verifyResult]
                   ELSE LET enc == SignatureEncodings[calls[c].cred, verifyResult, chainId]
                        IN  IF ~enc.ok
                            THEN [Fails(c, enc.error) EXCEPT !.verifyRes = verifyResult]
                            ELSE [@ EXCEPT !.pc = "Encoded",
                                           !.verifyRes = verifyResult,
                                           !.result = enc.v]]
  /\ UNCHANGED signerVars

\* VerifySettles without the check of lines 121-123
VerifySettles_NoSuccessCheck(c, o) ==
  /\ calls[c].pc = "ServerVerifying"
  /\ calls' =
       [calls EXCEPT ![c] =
          IF o.fetch = "rejected" \/ ~o.json.ok THEN Fails(c, "VerifyRequestFailed")
          ELSE LET verifyResult == o.json.v
               IN  IF ~Has(verifyResult, "authenticatorData")
                   THEN [Fails(c, "TypeError") EXCEPT !.verifyRes = verifyResult]
                   ELSE LET enc == EncodeSignature(calls[c].cred, verifyResult, chainId)
                        IN  IF ~enc.ok
                            THEN [Fails(c, enc.error) EXCEPT !.verifyRes = verifyResult]
                            ELSE [@ EXCEPT !.pc = "Encoded",
                                           !.verifyRes = verifyResult,
                                           !.result = enc.v]]
  /\ UNCHANGED signerVars

\* lines 112-163: fetch of sign-verify and response.json() settle; the call
\* throws unless the body says success, then builds the encoded signature
VerifySettles(c, o) ==
  /\ calls[c].pc = "ServerVerifying"
  /\ calls' =
       [calls EXCEPT ![c] =
          IF o.fetch = "rejected" \/ ~o.json.ok THEN Fails(c, "VerifyRequestFailed")
          ELSE LET verifyResult == o.json.v
               IN  IF ~(Has(verifyResult, "success") /\ verifyResult.success)
                   THEN [Fails(c, "ServerSignatureRejected") EXCEPT
                           !.verifyRes = verifyResult]
                   ELSE LET enc == SignatureEncodings[calls[c].cred, verifyResult, chainId]
                        IN  IF ~enc.ok
                            THEN [Fails(c, enc.error) EXCEPT !.verifyRes = verifyResult]
                            ELSE [@ EXCEPT !.pc = "Encoded",
                                           !.verifyRes = verifyResult,
                                           !.result = enc.v]]
  /\ UNCHANGED signerVars

Next ==
  \/ ToWebAuthnSigner
  \/ \E o \in ProvisionOutcomes : ProvisionSettles(o)
  \/ \E id \in ChainIds : GetChainIdResolves(id)
  \/ GetChainIdRejects
  \/ \E c \in Calls :
       \/ \E message \in Messages : SignMessage(c, message)
       \/ \E typedData \in TypedDatas : SignTypedData(c, typedData)
       \/ SignTransaction(c)
       \/ GetSignerData(c)
       \/ GetDummySignature(c)
       \/ \E o \in InitiateOutcomes : InitiateSettles(c, o)
       \/ \E o \in AuthenticationOutcomes(calls[c].options) : AuthenticationSettles(c, o)
       \/ \E o \in VerifyOutcomes : VerifySettles(c, o)

Spec == Init /\ [][Next]_vars

\* the awaited external step of the call settles: the sign-initiate
\* response, the authenticator or the sign-verify response, whichever the
\* call is suspended at
Settles(c) ==
  \/ \E o \in InitiateOutcomes : InitiateSettles(c, o)
  \/ \E o \in AuthenticationOutcomes(calls[c].options) : AuthenticationSettles(c, o)
  \/ \E o \in VerifyOutcomes : VerifySettles(c, o)

\* Spec under the assumption that the external step a call awaits
\* eventually settles, for every call
FairSpec == Spec /\ \A c \in Calls : WF_vars(Settles(c))

(***************************************************************************)
(* Properties                                                              *)
(***************************************************************************)

SigningOps == {"signMessage", "signTypedData"}

\* the call has returned an EncodedSignature
ReturnedSignature(c) == calls[c].op \in SigningOps /\ IsSet(calls[c].result)

\* the sign-verify response of the call said success
ServerVerified(c) ==
  /\ IsSet(calls[c].verifyRes)
  /\ Has(calls[c].verifyRes, "success")
  /\ calls[c].verifyRes.success

\* C1: a signing call returns an EncodedSignature only if the sign-verify
\* response of that same call had success = true, and that response was to
\* the request carrying the assertion the signature is built from.
C1_SignatureOnlyIfVerified ==
  \A c \in Calls :
    ReturnedSignature(c) =>
      /\ ServerVerified(c)
      /\ calls[c].nVerify = 1
      /\ calls[c].verifyReq.body.cred = calls[c].cred

\* C1 witness: a signing call returned an EncodedSignature while the other
\* one got a sign-verify response without success that carried the fields
C1_Witness ==
  \E c, d \in Calls :
    /\ ReturnedSignature(c)
    /\ calls[c].pc = "Encoded"
    /\ calls[d].op \in SigningOps
    /\ IsSet(calls[d].verifyRes)
    /\ ~calls[d].verifyRes.success
    /\ Has(calls[d].verifyRes, "signature")

\* the sign-verify response of the call was parsed and did not say success
ServerRejected(c) == IsSet(calls[c].verifyRes) /\ ~ServerVerified(c)

\* the external calls a call has made so far
ExternalCalls(c) == << calls[c].nInit, calls[c].nAuth, calls[c].nVerify >>

\* C2: when the sign-verify response has success = false the call fails with
\* ServerSignatureRejected without a result, and from then on none of its
\* counts of sign-initiate requests, authenticator invocations and
\* sign-verify requests increases.
C2_RejectionEndsTheCall ==
  [][\A c \in Calls :
       /\ ServerRejected(c)' =>
            /\ calls'[c].pc = "Failed"
            /\ calls'[c].error = "ServerSignatureRejected"
            /\ ~IsSet(calls'[c].result)
       /\ ServerRejected(c) => ExternalCalls(c)' = ExternalCalls(c)]_vars

\* C2 witness: a signMessage call was rejected by the server after exactly
\* one request of each kind
C2_Witness ==
  \E c \in Calls :
    /\ calls[c].op = "signMessage"
    /\ ServerRejected(c)
    /\ calls[c].error = "ServerSignatureRejected"
    /\ ExternalCalls(c) = << 1, 1, 1 >>

\* C3: the authenticator is invoked only after the sign-initiate response
\* was received, with the challenge and allowCredentials of that response;
\* the sign-verify request is sent only after the authenticator returned an
\* assertion, and carries it; while one step is awaited no later step has
\* been started.
C3_StrictSequencing ==
  \A c \in Calls :
    /\ calls[c].nAuth > 0 =>
         /\ calls[c].nInit = 1
         /\ IsSet(calls[c].initRes)
         /\ Has(calls[c].options, "challenge") = Has(calls[c].initRes, "challenge")
         /\ Has(calls[c].options, "challenge") =>
              calls[c].options.challenge = calls[c].initRes.challenge
         /\ Has(calls[c].options, "allowCredentials")
              = Has(calls[c].initRes, "allowCredentials")
         /\ Has(calls[c].options, "allowCredentials") =>
              calls[c].options.allowCredentials = calls[c].initRes.allowCredentials
    /\ calls[c].nVerify > 0 =>
         /\ calls[c].nAuth = 1
         /\ IsSet(calls[c].cred)
         /\ calls[c].verifyReq.body.cred = calls[c].cred
    /\ calls[c].pc = "ChallengeRequested" =>
         calls[c].nAuth = 0 /\ calls[c].nVerify = 0 /\ ~IsSet(calls[c].initRes)
    /\ calls[c].pc = "AssertionPending" =>
         calls[c].nVerify = 0 /\ ~IsSet(calls[c].cred)
    /\ calls[c].pc = "ServerVerifying" => ~IsSet(calls[c].verifyRes)

\* C3 witness: a call has sent its sign-verify request for the second
\* challenge while the other call awaits the authenticator for the first
C3_Witness ==
  \E c, d \in Calls :
    /\ calls[c].pc = "ServerVerifying"
    /\ Has(calls[c].options, "challenge")
    /\ calls[c].options.challenge = << "2" >>
    /\ calls[c].cred = ConformingAssertion[<< "2" >>]
    /\ calls[d].pc = "AssertionPending"
    /\ Has(calls[d].options, "challenge")
    /\ calls[d].options.challenge = << "1" >>

\* C4: a signTypedData call whose typed data validateTypedData rejects has
\* failed with InvalidTypedData and has sent no sign-initiate request, has
\* not invoked the authenticator and has sent no sign-verify request.
C4_TypedDataValidatedFirst ==
  \A c \in Calls :
    (calls[c].op = "signTypedData" /\ ~calls[c].input.valid) =>
      /\ calls[c].pc = "Failed"
      /\ calls[c].error = "InvalidTypedData"
      /\ ExternalCalls(c) = << 0, 0, 0 >>
      /\ ~IsSet(calls[c].initReq)

\* C4 witness: one signTypedData call failed on malformed typed data, and a
\* signTypedData call with valid typed data has sent its sign-initiate request
C4_Witness ==
  \E c, d \in Calls :
    /\ calls[c].op = "signTypedData"
    /\ ~calls[c].input.valid
    /\ calls[c].pc = "Failed"
    /\ calls[d].op = "signTypedData"
    /\ calls[d].input.valid
    /\ calls[d].nInit = 1

\* the sign-initiate request of the call ended in a network failure or in a
\* response whose HTTP status is not a success
InitiateUnsuccessful(c) == calls[c].initOutcome \in {"rejected", "http-error"}

\* C5: when the sign-initiate request ends in a non-success network or HTTP
\* outcome the call has failed with ChallengeInitiationFailed, the
\* authenticator has not been invoked and no sign-verify request was sent.
C5_InitiateFailureStopsTheCall ==
  \A c \in Calls :
    InitiateUnsuccessful(c) =>
      /\ calls[c].pc = "Failed"
      /\ calls[c].error = "ChallengeInitiationFailed"
      /\ calls[c].nAuth = 0
      /\ calls[c].nVerify = 0

NonTerminal == {"Idle", "ChallengeRequested", "AssertionPending", "ServerVerifying"}

\* the moves of the state machine of section 4.7
AllowedMoves ==
  { << "Idle", "ChallengeRequested" >>,
    << "ChallengeRequested", "AssertionPending" >>,
    << "AssertionPending", "ServerVerifying" >>,
    << "ServerVerifying", "Encoded" >> }
  \cup {<< p, "Failed" >> : p \in NonTerminal}

\* C6: a signing call moves only along Idle -> ChallengeRequested ->
\* AssertionPending -> ServerVerifying -> Encoded or from a non-terminal
\* state to Failed; nothing of a call changes once it is Failed or Encoded;
\* a call has an error exactly when it is Failed and a result exactly when
\* it is Encoded, and it is Encoded only when no step of the encoding threw,
\* so an exception of any sub-step leaves no result.
C6_StateMachine ==
  [][\A c \in Calls :
       calls'[c].op \in SigningOps =>
         /\ calls'[c].pc = calls[c].pc \/ << calls[c].pc, calls'[c].pc >> \in AllowedMoves
         /\ calls[c].pc \in {"Failed", "Encoded"} => calls'[c] = calls[c]
         /\ (calls'[c].error # "") = (calls'[c].pc = "Failed")
         /\ IsSet(calls'[c].result) = (calls'[c].pc = "Encoded")
         /\ calls'[c].pc = "Encoded" =>
              /\ ServerVerified(c)'
              /\ SignatureEncodings[calls'[c].cred, calls'[c].verifyRes, chainId'].ok]_vars

\* C6 witness: the locating of the fields threw in one call and the parsing
\* of the signature in the other, after their servers verified the
\* assertions; both calls are Failed and have no result
C6_Witness ==
  \E c, d \in Calls :
    /\ calls[c].op \in SigningOps
    /\ calls[c].pc = "Failed"
    /\ calls[c].error = "FieldNotFound"
    /\ ServerVerified(c)
    /\ ~IsSet(calls[c].result)
    /\ calls[d].op \in SigningOps
    /\ calls[d].pc = "Failed"
    /\ calls[d].error = "MalformedSignature"
    /\ ServerVerified(d)

\* C7: a call sends at most one sign-initiate request, invokes the
\* authenticator at most once and sends at most one sign-verify request;
\* when the authenticator step was cancelled or timed out the call is Failed
\* with AssertionAborted after one invocation and has sent no sign-verify
\* request.
C7_NoRetry ==
  \A c \in Calls :
    /\ calls[c].nInit <= 1
    /\ calls[c].nAuth <= 1
    /\ calls[c].nVerify <= 1
    /\ calls[c].error = "AssertionAborted" =>
         /\ calls[c].pc = "Failed"
         /\ ExternalCalls(c) = << 1, 1, 0 >>
         /\ ~IsSet(calls[c].cred)
    /\ (calls[c].pc = "AssertionPending" /\ calls[c].nAuth = 1) =>
         ~IsSet(calls[c].cred) /\ calls[c].error = ""

\* C7 witness: the authenticator step of a call was aborted while the other
\* call ran to its encoded signature
C7_Witness ==
  \E c, d \in Calls :
    /\ calls[c].error = "AssertionAborted"
    /\ calls[c].pc = "Failed"
    /\ calls[d].pc = "Encoded"
    /\ ExternalCalls(d) = << 1, 1, 1 >>

\* the usePrecompiled field of an encoded signature
UsePrecompiled(encoded) == encoded.values[7]

ReturnedDummy(c) == calls[c].op = "getDummySignature" /\ calls[c].pc = "Returned"

\* C8: on one signer the usePrecompiled field of a value returned by
\* getDummySignature equals that of an EncodedSignature returned by a signing
\* call, whichever was called first, and both are the resolver's answer for
\* the chain id read at construction.
C8_SameUsePrecompiled ==
  \A c, d \in Calls :
    /\ ReturnedDummy(c) =>
         UsePrecompiled(calls[c].result) = isRIP7212SupportedNetwork(chainId)
    /\ (ReturnedDummy(c) /\ ReturnedSignature(d)) =>
         UsePrecompiled(calls[c].result) = UsePrecompiled(calls[d].result)

\* C8 witness: on a chain with the precompile a dummy signature and an
\* encoded signature were both returned
C8_Witness ==
  \E c, d \in Calls :
    /\ ReturnedDummy(c)
    /\ ReturnedSignature(d)
    /\ UsePrecompiled(calls[d].result)

HexOfMessage(message) ==
  IF message.kind = "rawBytes" THEN HexOfBytes(message.bytes)
  ELSE IF StartsWith(message.val, << "0", "x" >>) THEN Slice(message.val, 2)
  ELSE message.val

\* C10: the data submitted to sign-initiate by signMessage is the message as
\* a hex string without the 0x prefix.
C10_DataIsHexOfMessage ==
  \A c \in Calls :
    (calls[c].op = "signMessage" /\ calls[c].nInit = 1) =>
      /\ IsHexDigits(calls[c].initReq.body.data)
      /\ calls[c].initReq.body.data = HexOfMessage(calls[c].input)

\* the message is neither a string nor an object with a raw field that is a
\* string or a byte array
Unsupported(message) == message.kind \in {"other", "primitive"}

\* C11: a signMessage call whose message is neither a string nor an object
\* with a raw string or byte array has failed with UnsupportedMessageFormat,
\* and has sent no sign-initiate request, has not invoked the authenticator
\* and has sent no sign-verify request.
C11_UnsupportedMessageFails ==
  \A c \in Calls :
    (calls[c].op = "signMessage" /\ Unsupported(calls[c].input)) =>
      /\ calls[c].pc = "Failed"
      /\ calls[c].error = "UnsupportedMessageFormat"
      /\ ExternalCalls(c) = << 0, 0, 0 >>
      /\ ~IsSet(calls[c].initReq)

\* C12: a signTransaction call has failed with TransactionSigningUnsupported
\* without a result, has sent no request and has not invoked the
\* authenticator; the signer stays usable: every call slot not yet used can
\* still start signMessage and signTypedData.
C12_SignTransactionUnsupported ==
  \A c \in Calls :
    calls[c].op = "signTransaction" =>
      /\ calls[c].pc = "Failed"
      /\ calls[c].error = "TransactionSigningUnsupported"
      /\ ~IsSet(calls[c].result)
      /\ ExternalCalls(c) = << 0, 0, 0 >>
      /\ ~IsSet(calls[c].initReq)
      /\ \A d \in Calls :
           calls[d].pc = "Idle" =>
             /\ \A message \in Messages : ENABLED SignMessage(d, message)
             /\ \A typedData \in TypedDatas : ENABLED SignTypedData(d, typedData)

\* C12 witness: signTransaction failed in one call and a signMessage call of
\* the same signer returned an encoded signature
C12_Witness ==
  \E c, d \in Calls :
    /\ calls[c].op = "signTransaction"
    /\ calls[c].pc = "Failed"
    /\ calls[d].op = "signMessage"
    /\ calls[d].pc = "Encoded"

\* the values the key held by a signer can take, and no key
HeldKeys == {KeyGiven, KeyProvisioned, None}

\* C13: a getSignerData call on a signer holding a key has returned the
\* encoding of the two uint256 values (pubX, pubY) of that key, in that
\* order; on no key it has failed with PublicKeyUnavailable and returned
\* nothing.  The function of lines 198-209 does so for every value of the
\* held key.
C13_SignerDataOfHeldKey ==
  /\ \A c \in Calls :
       calls[c].op = "getSignerData" =>
         IF IsSet(pubKey)
         THEN /\ calls[c].pc = "Returned"
              /\ calls[c].result.types = << "uint256", "uint256" >>
              /\ calls[c].result.values = << pubKey.pubX, pubKey.pubY >>
              /\ calls[c].error = ""
         ELSE /\ calls[c].pc = "Failed"
              /\ calls[c].error = "PublicKeyUnavailable"
              /\ ~IsSet(calls[c].result)
  /\ \A k \in HeldKeys :
       IF IsSet(k)
       THEN /\ SignerData(k).ok
            /\ SignerData(k).v.values = << k.pubX, k.pubY >>
       ELSE /\ ~SignerData(k).ok
            /\ SignerData(k).error = "PublicKeyUnavailable"

\* C13 witness: getSignerData returned the encoding of the provisioned key
C13_Witness ==
  \E c \in Calls :
    /\ calls[c].op = "getSignerData"
    /\ calls[c].pc = "Returned"
    /\ pubKey = KeyProvisioned
    /\ calls[c].result.values = << 3, 4 >>

\* the text ends at offset n of s (0-based, exclusive) and does not occur
\* earlier in s
LocatedAt(s, marker, n) ==
  /\ n >= Len(marker)
  /\ n <= Len(s)
  /\ SubSeq(s, n - Len(marker) + 1, n) = marker
  /\ \A m \in Len(marker)..(n - 1) : SubSeq(s, m - Len(marker) + 1, m) # marker

\* atob of the clientDataJSON of each assertion, and the bytes of each
\* base64 field of a sign-verify response, evaluated once
DecodedClientData == [cred \in Assertions |-> Atob(cred.response.clientDataJSON)]
DecodedField ==
  [b \in ServerAuthenticatorDatas \cup ServerSignatures |-> Base64Decode(b)]

\* C14: the EncodedSignature returned by a signing call is the encoding,
\* under the types (bytes, string, uint256, uint256, uint256, uint256, bool),
\* of: the authenticator data of the verified response as hex; the decoded
\* clientDataJSON of the assertion; the offset just past the first
\* "challenge":" in it; the offset just past the first "type":" in it; r and
\* s of the verified signature; the resolver's answer for the chain id.
C14_TupleLayout ==
  \A c \in Calls :
    ReturnedSignature(c) =>
      LET v == calls[c].result.values
          clientData == DecodedClientData[calls[c].cred]
          authBytes == DecodedField[calls[c].verifyRes.authenticatorData]
          sigBytes == DecodedField[calls[c].verifyRes.signature]
      IN  /\ calls[c].result.types = EncodedSignatureTypes
          /\ Len(v) = 7
          /\ authBytes.ok /\ v[1] = << "0", "x" >> \o HexOfBytes(authBytes.v)
          /\ clientData.ok /\ v[2] = clientData.v
          /\ LocatedAt(v[2], ChallengeMarker, v[3])
          /\ LocatedAt(v[2], TypeMarker, v[4])
          /\ sigBytes.ok /\ Len(sigBytes.v) = 2 * ComponentWidth
          /\ v[5] = BigEndian(SubSeq(sigBytes.v, 1, ComponentWidth))
          /\ v[6] = BigEndian(SubSeq(sigBytes.v, ComponentWidth + 1, 2 * ComponentWidth))
          /\ v[7] = isRIP7212SupportedNetwork(chainId)

\* C14 witness: a signature was returned for the client data
\* {"type":"g","challenge":"1"}, whose challenge value starts at offset 25
\* and whose type value starts at offset 9, with r = 7 and s = 9
C14_Witness ==
  \E c \in Calls :
    /\ ReturnedSignature(c)
    /\ calls[c].result.values[2] = ClientDataText(<< "1" >>)
    /\ calls[c].result.values[3] = 25
    /\ calls[c].result.values[4] = 9
    /\ calls[c].result.values[5] = 7
    /\ calls[c].result.values[6] = 9

\* the value returned by getDummySignature has the types of an encoded
\* signature, the fixed authenticator data (0x and 74 times f) and the fixed
\* client data, and both locations are the maximum uint256
DummyShape(c) ==
  LET v == calls[c].result.values
  IN  /\ calls[c].result.types = EncodedSignatureTypes
      /\ Len(v) = 7
      /\ Len(v[1]) = 76
      /\ \A i \in 3..76 : v[1][i] = "f"
      /\ v[2] = DummyClientDataJSON
      /\ v[3] = 65535
      /\ v[4] = 65535
      /\ v[7] \in BOOLEAN
      /\ ExternalCalls(c) = << 0, 0, 0 >>

\* C15 as claimed: getDummySignature returns the 7-field tuple with the
\* fixed placeholders, both locations equal to the maximum uint256, and r
\* and s both equal to the maximum uint256, without any request or
\* authenticator invocation.
C15_DummyAllMax ==
  \A c \in Calls :
    ReturnedDummy(c) =>
      /\ DummyShape(c)
      /\ calls[c].result.values[5] = 65535
      /\ calls[c].result.values[6] = 65535

\* C15 as amended: as claimed, except that r and s are two fixed
\* placeholders below the maximum uint256, s being twice r.
C15_DummyPlaceholders ==
  \A c \in Calls :
    ReturnedDummy(c) =>
      /\ DummyShape(c)
      /\ calls[c].result.values[5] = 11111
      /\ calls[c].result.values[6] = 22222
      /\ calls[c].result.values[6] < 65535

\* C15 witness: both calls returned a dummy signature, the same on a chain
\* without the precompile
C15_Witness ==
  \E c, d \in Calls :
    /\ c # d
    /\ ReturnedDummy(c)
    /\ ReturnedDummy(d)
    /\ calls[c].result = calls[d].result
    /\ ~UsePrecompiled(calls[c].result)

\* what the call has is built from what the call itself received: the
\* options from its sign-initiate response, the sign-verify request from its
\* assertion, the result or the exception of the encoding from its
\* assertion and its sign-verify response
BuiltFromOwn(c) ==
  /\ calls[c].nAuth > 0 =>
       /\ Has(calls[c].options, "challenge") = Has(calls[c].initRes, "challenge")
       /\ Has(calls[c].options, "challenge") =>
            calls[c].options.challenge = calls[c].initRes.challenge
  /\ IsSet(calls[c].cred) =>
       /\ calls[c].cred \in {o.v : o \in {x \in AuthenticationOutcomes(calls[c].options) : x.ok}}
       /\ calls[c].verifyReq.body.cred = calls[c].cred
  /\ ServerVerified(c) =>
       LET enc == SignatureEncodings[calls[c].cred, calls[c].verifyRes, chainId]
       IN  IF enc.ok
           THEN calls[c].pc = "Encoded" /\ calls[c].result = enc.v
           ELSE calls[c].pc = "Failed" /\ calls[c].error = enc.error
                /\ ~IsSet(calls[c].result)

\* C16: whatever the interleaving of two signing calls, each call invokes
\* the authenticator with the challenge of its own sign-initiate response,
\* sends its own assertion to sign-verify and gets a result or failure built
\* from its own assertion and verify response; a step of one call changes
\* nothing of the other.
C16_CallsAreIndependent ==
  [][\A c \in Calls :
       /\ calls'[c].op \in SigningOps => BuiltFromOwn(c)'
       /\ calls'[c] # calls[c] => \A d \in Calls \ {c} : calls'[d] = calls[d]]_vars

\* C16 witness: two signing calls got different challenges, different
\* assertions and different verify responses, and each returned its own
\* signature
C16_Witness ==
  \E c, d \in Calls :
    /\ calls[c].pc = "Encoded"
    /\ calls[d].pc = "Encoded"
    /\ calls[c].initRes.challenge # calls[d].initRes.challenge
    /\ calls[c].cred # calls[d].cred
    /\ calls[c].verifyRes # calls[d].verifyRes
    /\ calls[c].result.values[2] = ClientDataText(calls[c].initRes.challenge)
    /\ calls[d].result.values[2] = ClientDataText(calls[d].initRes.challenge)
    /\ calls[c].result.values[1] # calls[d].result.values[1]

\* what a returned signer holds
Held == << pubKey, chainId, params.passkeyServerUrl, signerContractAddress >>

\* C17: once the signer is returned, no step of any operation, succeeding or
\* failing, changes the public key, the chain id, the passkey server URL or
\* the signerContractAddress, and the signer stays the returned signer.
C17_HeldStateIsFrozen ==
  [][spc = "Ready" => (spc' = "Ready" /\ Held' = Held)]_vars

\* C17 witness: on a signer with a provisioned key and a custom contract
\* address a signing call returned and an operation failed, and the signer
\* holds what construction gave it
C17_Witness ==
  \E c, d \in Calls :
    /\ calls[c].pc = "Encoded"
    /\ calls[d].pc = "Failed"
    /\ spc = "Ready"
    /\ pubKey = KeyProvisioned
    /\ chainId = 10
    /\ signerContractAddress = params.signerContractAddress

\* C18: a returned signer holds a public key; toWebAuthnPubKey is called
\* only when the caller gave no pubKey, and at most once; when no key results
\* construction has failed with the public-key-not-found error without a
\* call of getChainId; no getSignerData call of a returned signer has failed.
C18_SignerHasKey ==
  /\ spc = "Ready" => IsSet(pubKey)
  /\ provisionCalls > 0 => ~Has(params, "pubKey")
  /\ provisionCalls <= 1
  /\ Has(params, "pubKey") => (spc # "NotCalled" => pubKey = params.pubKey)
  /\ chainIdCalls > 0 => IsSet(pubKey)
  /\ (spc \notin {"NotCalled", "Provisioning"} /\ ~IsSet(pubKey)) =>
       /\ spc = "ConstructFailed"
       /\ constructError \in {"PublicKeyUnavailable", "ProvisioningFailed"}
       /\ chainIdCalls = 0
       /\ chainId = 0
  /\ constructError = "PublicKeyUnavailable" =>
       /\ spc = "ConstructFailed"
       /\ ~IsSet(pubKey)
       /\ provisionCalls = 1
       /\ chainIdCalls = 0
  /\ \A c \in Calls :
       /\ calls[c].op # "" => spc = "Ready"
       /\ calls[c].op = "getSignerData" =>
            calls[c].pc = "Returned" /\ calls[c].error = ""

\* C18 witness: the caller gave no pubKey, toWebAuthnPubKey was called and
\* resolved without a key, and construction failed before getChainId
C18_Witness ==
  /\ ~Has(params, "pubKey")
  /\ provisionCalls = 1
  /\ spc = "ConstructFailed"
  /\ constructError = "PublicKeyUnavailable"
  /\ chainIdCalls = 0
  /\ \A c \in Calls : calls[c].pc = "Idle"

Terminal == {"Encoded", "Failed"}

\* C19: when the external step a call awaits always settles in the end
\* (the sign-initiate response, the authenticator, the sign-verify
\* response), every signing call that was started reaches Encoded or
\* Failed: a call stays suspended nowhere but at those three awaits.
C19_SigningTerminates ==
  \A c \in Calls :
    (calls[c].op \in SigningOps /\ calls[c].pc \notin Terminal)
      ~> (calls[c].pc \in Terminal)

\* C19 witness: one signing call is suspended at the authenticator while
\* the other has gone through all three awaits to its encoded signature
C19_Witness ==
  \E c, d \in Calls :
    /\ calls[c].op \in SigningOps
    /\ calls[c].pc = "AssertionPending"
    /\ calls[d].op \in SigningOps
    /\ calls[d].pc = "Encoded"
    /\ ExternalCalls(d) = << 1, 1, 1 >>

=============================================================================
